---- MODULE Spec2Model ----
(***************************************************************************)
(* Twilio Media Stream <-> OpenAI Realtime bridge: the per-connection      *)
(* handler of the /media-stream route.  The repository holds three         *)
(* variants of that handler (src/index.js, src/unnamed/part_000,           *)
(* src/unnamed/part_001); `variant` selects the one a behaviour runs.      *)
(*                                                                         *)
(* One action models one event-loop callback, run to completion.  `pre`    *)
(* is the connection state the callback started from, `ev` the event it    *)
(* handled and `sent` the send() calls it made, in program order, with a    *)
(* "close" entry for a call of openAiWs.close().                           *)
(***************************************************************************)
EXTENDS Integers, Sequences, FiniteSets, TLC

\* ---- bounds --------------------------------------------------------------
MaxTs == 2          \* telephony media timestamps range over 0..MaxTs
MaxQueue == 2       \* markQueue is explored up to this length
MaxSid == 2         \* stream ids 1..MaxSid (0 models null)
MaxItem == 2        \* item ids 1..MaxItem (0 models a missing item_id)
MaxPairEvents == 5  \* events explored over two concurrent connections
MaxStray == 1       \* 'mark' events explored on an empty markQueue

Variants == {"index", "part_000", "part_001"}
Timestamps == 0..MaxTs
StreamSids == 1..MaxSid
ItemIds == 1..MaxItem

\* `null` for responseStartTimestampTwilio (0 is a legal timestamp)
Null == 0 - 1

VARIABLES
    variant,                        \* which source file runs
    streamSid,                      \* 0 = null
    latestMediaTimestamp,
    lastAssistantItem,              \* 0 = null
    markQueue,
    responseStartTimestampTwilio,   \* Null or a timestamp
    aiState,                        \* openAiWs.readyState
    aiOpened,                       \* the 'open' event of openAiWs has fired
    twState,                        \* telephony socket: OPEN / CLOSED
    initTimer,                      \* setTimeout(initializeSession, 100)
    sessionUpdates,                 \* session.update messages sent so far
    firstChunkAt,                   \* history: call clock at the first chunk
                                    \* of the latest AI response, or Null
    responseEnded,                  \* history: response.done arrived and no
                                    \* chunk since
    interrupted,                    \* history: an interruption was carried
                                    \* out and no chunk handled since
    markBalance,                    \* history: marks sent minus 'mark' events
                                    \* handled since markQueue = [] last ran
    strayReports,                   \* history: 'mark' events since then that
                                    \* found the queue empty
    crashed,                        \* an exception escaped a handler
    ev, pre, sent,
    \* two concurrent media-stream connections (specification SpecPair)
    sess,                           \* state cell -> connection state
    pev,                            \* last event, with its connection
    ppre,                           \* sess before the last handler
    psent                           \* send() calls of the last handler

sessionVars == <<streamSid, latestMediaTimestamp, lastAssistantItem,
                 markQueue, responseStartTimestampTwilio>>
vars == <<variant, streamSid, latestMediaTimestamp, lastAssistantItem,
          markQueue, responseStartTimestampTwilio, aiState, aiOpened,
          twState, initTimer, sessionUpdates, firstChunkAt,
          responseEnded, interrupted, markBalance, strayReports, crashed,
          ev, pre, sent, sess, pev, ppre, psent>>
oneVars == <<variant, streamSid, latestMediaTimestamp, lastAssistantItem,
             markQueue, responseStartTimestampTwilio, aiState, aiOpened,
             twState, initTimer, sessionUpdates, firstChunkAt,
             responseEnded, interrupted, markBalance, strayReports,
             crashed, ev, pre, sent>>
pairVars == <<sess, pev, ppre, psent>>
ghostVars == <<interrupted, markBalance, strayReports, crashed>>

\* ---- messages -------------------------------------------------------------
Msg(to, type, id, ms) == [to |-> to, type |-> type, id |-> id, ms |-> ms]
Event(src, type, arg) == [src |-> src, type |-> type, arg |-> arg]

Snapshot ==
    [streamSid |-> streamSid,
     latestMediaTimestamp |-> latestMediaTimestamp,
     lastAssistantItem |-> lastAssistantItem,
     markQueue |-> markQueue,
     responseStartTimestampTwilio |-> responseStartTimestampTwilio,
     aiState |-> aiState,
     aiOpened |-> aiOpened,
     twState |-> twState,
     initTimer |-> initTimer,
     firstChunkAt |-> firstChunkAt,
     responseEnded |-> responseEnded,
     interrupted |-> interrupted]

Max(a, b) == IF a >= b THEN a ELSE b

\* ---- helpers of the handlers ----------------------------------------------
\* openAiWs.send(): throws while CONNECTING (the callers that can run then
\* catch it), otherwise the message is handed to the socket.
AiSend(st, msgs) == IF st = "CONNECTING" THEN <<>> ELSE msgs

SessionUpdate == Msg("openai", "session.update", 0, 0)

\* handleSpeechStartedEvent: the guard of the interruption
SpeechStartedFires_IgnoresQueue(mq, rst) == rst # Null
SpeechStartedFires_IgnoresStart(mq, rst) == Len(mq) > 0
SpeechStartedFires(mq, rst) == Len(mq) > 0 /\ rst # Null

\* handleSpeechStartedEvent: audio_end_ms of the truncate event
AudioEndMs_Swapped(v, latest, rst) ==
    IF v = "index" THEN rst - latest ELSE Max(0, rst - latest)
AudioEndMs(v, latest, rst) ==
    IF v = "index" THEN latest - rst ELSE Max(0, latest - rst)

\* handleSpeechStartedEvent: the truncate event, sent only with an item id
TruncateEvents_Unguarded(item, ms) ==
    <<Msg("openai", "conversation.item.truncate", item, ms)>>
TruncateEvents(item, ms) ==
    IF item # 0
    THEN <<Msg("openai", "conversation.item.truncate", item, ms)>>
    ELSE <<>>

ClearEvent(sid) == Msg("twilio", "clear", sid, 0)

\* sendMark: mark message and queue entry, only with a stream id
MarkEvents_Unguarded(sid) == <<Msg("twilio", "mark", sid, 0)>>
MarkEvents(sid) ==
    IF sid # 0 THEN <<Msg("twilio", "mark", sid, 0)>> ELSE <<>>
MarkPush_Unguarded(mq, sid) == Append(mq, "responsePart")
MarkPush(mq, sid) == IF sid # 0 THEN Append(mq, "responsePart") ELSE mq

\* `!responseStartTimestampTwilio`: null and 0 are both falsy
StartUnset(rst) == rst = Null \/ rst = 0

\* handleSpeechStoppedEvent exists in part_001 only
SpeechStoppedEvents_Reversed(v) ==
    IF v = "part_001"
    THEN <<Msg("openai", "response.create", 0, 0),
           Msg("openai", "input_audio_buffer.commit", 0, 0)>>
    ELSE <<>>
SpeechStoppedEvents(v) ==
    IF v = "part_001"
    THEN <<Msg("openai", "input_audio_buffer.commit", 0, 0),
           Msg("openai", "response.create", 0, 0)>>
    ELSE <<>>

\* case 'stop': part_000 commits the input buffer
StopEvents(v) ==
    IF v = "part_000"
    THEN <<Msg("openai", "input_audio_buffer.commit", 0, 0)>>
    ELSE <<>>

\* response.done is handled by part_001 only
ResponseDoneClears(v) == v = "part_001"

\* case 'start': what the handler leaves in markQueue / lastAssistantItem
StartMarkQueue_Cleared(mq) == <<>>
StartMarkQueue(mq) == mq
StartAssistantItem(item) == item

\* case 'start': the stream id after the handler
StartStreamSid_KeepsFirst(old, sid) == IF old = 0 THEN sid ELSE old
StartStreamSid(old, sid) == sid

\* case 'media': latestMediaTimestamp after the handler
MediaClock_Monotonic(latest, ts) == Max(latest, ts)
MediaClock(latest, ts) == ts

\* case 'mark': markQueue after the handler
MarkShift_KeepsLast(mq) == IF Len(mq) > 1 THEN Tail(mq) ELSE mq
MarkShift(mq) == IF Len(mq) > 0 THEN Tail(mq) ELSE mq

\* case 'media': the send() calls, by the readyState of the AI socket
MediaEvents_Unguarded(st) ==
    AiSend(st, <<Msg("openai", "input_audio_buffer.append", 0, 0)>>)
MediaEvents(st) ==
    IF st = "OPEN"
    THEN <<Msg("openai", "input_audio_buffer.append", 0, 0)>>
    ELSE <<>>

\* connection.on('close'): the calls of openAiWs.close(), by the readyState
\* of the AI socket
CloseCalls_Unguarded(v, st) == <<Msg("openai", "close", 0, 0)>>
CloseCalls(v, st) ==
    IF v = "part_000" \/ st = "OPEN"
    THEN <<Msg("openai", "close", 0, 0)>>
    ELSE <<>>

\* JSON.parse throws on the message: whether a try/catch of the handler
\* catches it
ParseErrorCaught_ParseOutsideTry(v) == v # "part_000"
ParseErrorCaught(v) == TRUE

\* case 'media': markQueue after the handler (the case ends in `break`)
MediaMarkQueue_FallsThrough(mq) == MarkShift(mq)
MediaMarkQueue(mq) == mq

\* handleSpeechStartedEvent: the start timestamp after an interruption
BargeInStart_Kept(rst) == rst
BargeInStart(rst) == Null

\* response.output_audio.delta: the start timestamp after the handler
DeltaStart(rst, latest) == IF StartUnset(rst) THEN latest ELSE rst

\* response.output_audio.delta: lastAssistantItem after the handler
DeltaAssistantItem_FirstOnly(old, item) ==
    IF item # 0 /\ old = 0 THEN item ELSE old
DeltaAssistantItem(old, item) == IF item # 0 THEN item ELSE old

\* openAiWs.on('open'): part_000 configures at once, the others by a timer
OpenEvents_Always(v) == <<SessionUpdate>>
OpenEvents(v) == IF v = "part_000" THEN <<SessionUpdate>> ELSE <<>>
OpenTimer(v, timer) == IF v = "part_000" THEN timer ELSE "pending"

\* connection.on('close'): readyState of openAiWs after the handler
AiStateAfterTwClose(v, st) ==
    IF v = "part_000"
    THEN (IF st = "CLOSED" THEN "CLOSED" ELSE "CLOSING")
    ELSE (IF st = "OPEN" THEN "CLOSING" ELSE st)

\* openAiWs.on('close') / on('error'): telephony socket after the handler
TwStateAfterAiClose(st) == st

\* ---- the handlers as functions of one connection's state ---------------------
\* The state a connection handler closes over: its `let` variables, its two
\* sockets and its timer.
ConnInit ==
    [streamSid |-> 0,
     latestMediaTimestamp |-> 0,
     lastAssistantItem |-> 0,
     markQueue |-> <<>>,
     responseStartTimestampTwilio |-> Null,
     aiState |-> "CONNECTING",
     aiOpened |-> FALSE,
     twState |-> "OPEN",
     initTimer |-> "none"]

ConnAiDelivers(s) == s.aiOpened /\ s.aiState \in {"OPEN", "CLOSING"}

\* when event e can be delivered to a connection in state s
HandlerEnabled(s, e) ==
    CASE e.src = "openai" /\ e.type = "open" -> s.aiState = "CONNECTING"
      [] e.src = "timer" -> s.initTimer = "pending"
      [] e.src = "openai" /\ e.type = "response.output_audio.delta" ->
            /\ ConnAiDelivers(s)
            /\ s.streamSid = 0 \/ Len(s.markQueue) < MaxQueue
      [] e.src = "openai" /\ e.type = "error" ->
            s.aiState \in {"CONNECTING", "OPEN"}
      [] e.src = "openai" /\ e.type = "close" -> s.aiState # "CLOSED"
      [] e.src = "openai" /\ e.type \notin
            {"open", "response.output_audio.delta", "error", "close"} ->
            ConnAiDelivers(s)
      [] e.src = "twilio" -> s.twState = "OPEN"

\* the connection state the handler of e leaves, started in state s
HandlerState(v, s, e) ==
    CASE e.src = "openai" /\ e.type = "open" ->
            [s EXCEPT !.aiState = "OPEN", !.aiOpened = TRUE,
                      !.initTimer = OpenTimer(v, @)]
      [] e.src = "timer" -> [s EXCEPT !.initTimer = "fired"]
      [] e.src = "openai" /\ e.type = "response.output_audio.delta" ->
            [s EXCEPT
               !.responseStartTimestampTwilio =
                   DeltaStart(@, s.latestMediaTimestamp),
               !.lastAssistantItem = DeltaAssistantItem(@, e.arg),
               !.markQueue = MarkPush(@, s.streamSid)]
      [] e.src = "openai" /\ e.type = "input_audio_buffer.speech_started" ->
            IF SpeechStartedFires(s.markQueue, s.responseStartTimestampTwilio)
            THEN [s EXCEPT !.markQueue = <<>>, !.lastAssistantItem = 0,
                           !.responseStartTimestampTwilio = BargeInStart(@)]
            ELSE s
      [] e.src = "openai" /\ e.type = "input_audio_buffer.speech_stopped" -> s
      [] e.type = "unparseable" -> s
      [] e.src = "openai" /\ e.type = "response.done" ->
            IF ResponseDoneClears(v)
            THEN [s EXCEPT !.markQueue = <<>>, !.lastAssistantItem = 0,
                           !.responseStartTimestampTwilio = Null]
            ELSE s
      [] e.src = "openai" /\ e.type = "error" ->
            [s EXCEPT !.aiState = "CLOSING",
                      !.twState = TwStateAfterAiClose(@)]
      [] e.src = "openai" /\ e.type = "close" ->
            [s EXCEPT !.aiState = "CLOSED",
                      !.twState = TwStateAfterAiClose(@)]
      [] e.src = "twilio" /\ e.type = "start" ->
            [s EXCEPT !.streamSid = StartStreamSid(@, e.arg),
                      !.responseStartTimestampTwilio = Null,
                      !.latestMediaTimestamp = 0,
                      !.markQueue = StartMarkQueue(@),
                      !.lastAssistantItem = StartAssistantItem(@)]
      [] e.src = "twilio" /\ e.type = "media" ->
            [s EXCEPT !.latestMediaTimestamp = MediaClock(@, e.arg),
                      !.markQueue = MediaMarkQueue(@)]
      [] e.src = "twilio" /\ e.type = "mark" ->
            [s EXCEPT !.markQueue = MarkShift(@)]
      [] e.src = "twilio" /\ e.type = "stop" -> s
      [] e.src = "twilio" /\ e.type = "close" ->
            [s EXCEPT !.twState = "CLOSED",
                      !.aiState = AiStateAfterTwClose(v, @)]

\* the send() calls the handler of e makes, started in state s
HandlerSends(v, s, e) ==
    CASE e.src = "openai" /\ e.type = "open" -> OpenEvents(v)
      [] e.src = "timer" -> AiSend(s.aiState, <<SessionUpdate>>)
      [] e.src = "openai" /\ e.type = "response.output_audio.delta" ->
            <<Msg("twilio", "media", s.streamSid, 0)>>
               \o MarkEvents(s.streamSid)
      [] e.src = "openai" /\ e.type = "input_audio_buffer.speech_started" ->
            IF SpeechStartedFires(s.markQueue, s.responseStartTimestampTwilio)
            THEN TruncateEvents(s.lastAssistantItem,
                    AudioEndMs(v, s.latestMediaTimestamp,
                               s.responseStartTimestampTwilio))
                 \o <<ClearEvent(s.streamSid)>>
            ELSE <<>>
      [] e.src = "openai" /\ e.type = "input_audio_buffer.speech_stopped" ->
            SpeechStoppedEvents(v)
      [] e.src = "twilio" /\ e.type = "media" ->
            MediaEvents(s.aiState)
      [] e.src = "twilio" /\ e.type = "stop" ->
            AiSend(s.aiState, StopEvents(v))
      [] e.src = "twilio" /\ e.type = "close" -> CloseCalls(v, s.aiState)
      [] OTHER -> <<>>

\* ---- two connections ----------------------------------------------------------
Conns == {"A", "B"}

\* the state cell the handlers of connection c read and write: the `let`
\* variables are declared inside the connection callback, one set per call
StateCell_Shared(c) == "A"
StateCell(c) == c

PairInit ==
    /\ sess = [c \in Conns |-> ConnInit]
    /\ pev = [conn |-> "A", e |-> Event("none", "init", 0), n |-> 0]
    /\ ppre = sess
    /\ psent = <<>>

\* ---- initial state ----------------------------------------------------------
Init ==
    /\ variant \in Variants
    /\ streamSid = 0
    /\ latestMediaTimestamp = 0
    /\ lastAssistantItem = 0
    /\ markQueue = <<>>
    /\ responseStartTimestampTwilio = Null
    /\ aiState = "CONNECTING"
    /\ aiOpened = FALSE
    /\ twState = "OPEN"
    /\ initTimer = "none"
    /\ sessionUpdates = 0
    /\ firstChunkAt = Null
    /\ responseEnded = FALSE
    /\ interrupted = FALSE
    /\ markBalance = 0
    /\ strayReports = 0
    /\ crashed = FALSE
    /\ ev = Event("none", "init", 0)
    /\ pre = Snapshot
    /\ sent = <<>>
    /\ PairInit

\* messages arrive on a socket that has opened, until its close event
AiDelivers == ~crashed /\ aiOpened /\ aiState \in {"OPEN", "CLOSING"}
TwDelivers == ~crashed /\ twState = "OPEN"

\* ---- OpenAI socket events ---------------------------------------------------
\* openAiWs.on('open')
AiOpen ==
    /\ ~crashed
    /\ aiState = "CONNECTING"
    /\ aiState' = "OPEN"
    /\ aiOpened' = TRUE
    /\ sent' = OpenEvents(variant)
    /\ sessionUpdates' = sessionUpdates + Len(OpenEvents(variant))
    /\ initTimer' = OpenTimer(variant, initTimer)
    /\ ev' = Event("openai", "open", 0)
    /\ UNCHANGED <<firstChunkAt, responseEnded>>
    /\ pre' = Snapshot
    /\ UNCHANGED ghostVars
    /\ UNCHANGED pairVars
    /\ UNCHANGED <<variant, sessionVars, twState>>

\* the timer callback: initializeSession
InitializeSession ==
    /\ ~crashed
    /\ initTimer = "pending"
    /\ initTimer' = "fired"
    /\ sent' = AiSend(aiState, <<SessionUpdate>>)
    /\ sessionUpdates' = sessionUpdates + 1
    /\ ev' = Event("timer", "initializeSession", 0)
    /\ UNCHANGED <<firstChunkAt, responseEnded>>
    /\ pre' = Snapshot
    /\ UNCHANGED ghostVars
    /\ UNCHANGED pairVars
    /\ UNCHANGED <<variant, sessionVars, aiState, aiOpened, twState>>

\* openAiWs.on('message'): response.output_audio.delta with a delta
AiAudioDelta ==
    /\ AiDelivers
    /\ streamSid = 0 \/ Len(markQueue) < MaxQueue
    /\ \E item \in {0} \cup ItemIds :
        /\ responseStartTimestampTwilio' =
              DeltaStart(responseStartTimestampTwilio, latestMediaTimestamp)
        /\ lastAssistantItem' = DeltaAssistantItem(lastAssistantItem, item)
        /\ markQueue' = MarkPush(markQueue, streamSid)
        /\ sent' = <<Msg("twilio", "media", streamSid, 0)>>
                      \o MarkEvents(streamSid)
        /\ ev' = Event("openai", "response.output_audio.delta", item)
    /\ firstChunkAt' = IF firstChunkAt = Null \/ responseEnded
                       THEN latestMediaTimestamp
                       ELSE firstChunkAt
    /\ responseEnded' = FALSE
    /\ pre' = Snapshot
    /\ interrupted' = FALSE
    /\ markBalance' = markBalance + Len(MarkEvents(streamSid))
    /\ UNCHANGED <<strayReports, crashed>>
    /\ UNCHANGED pairVars
    /\ UNCHANGED <<variant, streamSid, latestMediaTimestamp, aiState,
                   aiOpened, twState, initTimer, sessionUpdates>>

\* openAiWs.on('message'): input_audio_buffer.speech_started
AiSpeechStarted ==
    /\ AiDelivers
    /\ IF SpeechStartedFires(markQueue, responseStartTimestampTwilio)
       THEN /\ sent' = TruncateEvents(lastAssistantItem,
                          AudioEndMs(variant, latestMediaTimestamp,
                                     responseStartTimestampTwilio))
                       \o <<ClearEvent(streamSid)>>
            /\ markQueue' = <<>>
            /\ lastAssistantItem' = 0
            /\ responseStartTimestampTwilio' =
                  BargeInStart(responseStartTimestampTwilio)
       ELSE /\ sent' = <<>>
            /\ UNCHANGED <<markQueue, lastAssistantItem,
                           responseStartTimestampTwilio>>
    /\ ev' = Event("openai", "input_audio_buffer.speech_started", 0)
    /\ firstChunkAt' =
          IF SpeechStartedFires(markQueue, responseStartTimestampTwilio)
          THEN Null ELSE firstChunkAt
    /\ responseEnded' =
          IF SpeechStartedFires(markQueue, responseStartTimestampTwilio)
          THEN FALSE ELSE responseEnded
    /\ pre' = Snapshot
    /\ IF SpeechStartedFires(markQueue, responseStartTimestampTwilio)
       THEN interrupted' = TRUE /\ markBalance' = 0 /\ strayReports' = 0
       ELSE UNCHANGED <<interrupted, markBalance, strayReports>>
    /\ UNCHANGED crashed
    /\ UNCHANGED pairVars
    /\ UNCHANGED <<variant, streamSid, latestMediaTimestamp, aiState,
                   aiOpened, twState, initTimer, sessionUpdates>>

\* openAiWs.on('message'): JSON.parse throws on the message
AiUnparseable ==
    /\ AiDelivers
    /\ crashed' = ~ParseErrorCaught(variant)
    /\ sent' = <<>>
    /\ ev' = Event("openai", "unparseable", 0)
    /\ UNCHANGED <<firstChunkAt, responseEnded>>
    /\ pre' = Snapshot
    /\ UNCHANGED <<interrupted, markBalance, strayReports>>
    /\ UNCHANGED pairVars
    /\ UNCHANGED <<variant, sessionVars, aiState, aiOpened, twState,
                   initTimer, sessionUpdates>>

\* openAiWs.on('message'): input_audio_buffer.speech_stopped
AiSpeechStopped ==
    /\ AiDelivers
    /\ sent' = SpeechStoppedEvents(variant)
    /\ ev' = Event("openai", "input_audio_buffer.speech_stopped", 0)
    /\ UNCHANGED <<firstChunkAt, responseEnded>>
    /\ pre' = Snapshot
    /\ UNCHANGED ghostVars
    /\ UNCHANGED pairVars
    /\ UNCHANGED <<variant, sessionVars, aiState, aiOpened, twState,
                   initTimer, sessionUpdates>>

\* openAiWs.on('message'): response.done
AiResponseDone ==
    /\ AiDelivers
    /\ IF ResponseDoneClears(variant)
       THEN /\ markQueue' = <<>>
            /\ lastAssistantItem' = 0
            /\ responseStartTimestampTwilio' = Null
       ELSE UNCHANGED <<markQueue, lastAssistantItem,
                        responseStartTimestampTwilio>>
    /\ sent' = <<>>
    /\ ev' = Event("openai", "response.done", 0)
    /\ UNCHANGED firstChunkAt
    /\ responseEnded' = (firstChunkAt # Null)
    /\ pre' = Snapshot
    /\ IF ResponseDoneClears(variant)
       THEN markBalance' = 0 /\ strayReports' = 0
       ELSE UNCHANGED <<markBalance, strayReports>>
    /\ UNCHANGED <<interrupted, crashed>>
    /\ UNCHANGED pairVars
    /\ UNCHANGED <<variant, streamSid, latestMediaTimestamp, aiState,
                   aiOpened, twState, initTimer, sessionUpdates>>

\* openAiWs.on('error'): the handler logs; the socket goes on to close
AiError ==
    /\ ~crashed
    /\ aiState \in {"CONNECTING", "OPEN"}
    /\ aiState' = "CLOSING"
    /\ twState' = TwStateAfterAiClose(twState)
    /\ sent' = <<>>
    /\ ev' = Event("openai", "error", 0)
    /\ UNCHANGED <<firstChunkAt, responseEnded>>
    /\ pre' = Snapshot
    /\ UNCHANGED ghostVars
    /\ UNCHANGED pairVars
    /\ UNCHANGED <<variant, sessionVars, aiOpened, initTimer, sessionUpdates>>

\* openAiWs.on('close'): the handler logs
AiClose ==
    /\ ~crashed
    /\ aiState # "CLOSED"
    /\ aiState' = "CLOSED"
    /\ twState' = TwStateAfterAiClose(twState)
    /\ sent' = <<>>
    /\ ev' = Event("openai", "close", 0)
    /\ UNCHANGED <<firstChunkAt, responseEnded>>
    /\ pre' = Snapshot
    /\ UNCHANGED ghostVars
    /\ UNCHANGED pairVars
    /\ UNCHANGED <<variant, sessionVars, aiOpened, initTimer, sessionUpdates>>

\* ---- telephony socket events -----------------------------------------------
\* connection.on('message'): case 'start'
TwStart ==
    /\ TwDelivers
    /\ \E sid \in StreamSids :
        /\ streamSid' = StartStreamSid(streamSid, sid)
        /\ ev' = Event("twilio", "start", sid)
    /\ responseStartTimestampTwilio' = Null
    /\ latestMediaTimestamp' = 0
    /\ markQueue' = StartMarkQueue(markQueue)
    /\ lastAssistantItem' = StartAssistantItem(lastAssistantItem)
    /\ sent' = <<>>
    /\ firstChunkAt' = Null
    /\ responseEnded' = FALSE
    /\ pre' = Snapshot
    /\ UNCHANGED ghostVars
    /\ UNCHANGED pairVars
    /\ UNCHANGED <<variant, aiState, aiOpened, twState, initTimer,
                   sessionUpdates>>

\* connection.on('message'): case 'media'
TwMedia ==
    /\ TwDelivers
    /\ \E ts \in Timestamps :
        /\ latestMediaTimestamp' = MediaClock(latestMediaTimestamp, ts)
        /\ ev' = Event("twilio", "media", ts)
    /\ sent' = MediaEvents(aiState)
    /\ markQueue' = MediaMarkQueue(markQueue)
    /\ UNCHANGED <<firstChunkAt, responseEnded>>
    /\ pre' = Snapshot
    /\ UNCHANGED ghostVars
    /\ UNCHANGED pairVars
    /\ UNCHANGED <<variant, streamSid, lastAssistantItem,
                   responseStartTimestampTwilio, aiState, aiOpened,
                   twState, initTimer, sessionUpdates>>

\* connection.on('message'): case 'mark'
TwMark ==
    /\ TwDelivers
    /\ Len(markQueue) > 0 \/ strayReports < MaxStray
    /\ markQueue' = MarkShift(markQueue)
    /\ sent' = <<>>
    /\ ev' = Event("twilio", "mark", 0)
    /\ UNCHANGED <<firstChunkAt, responseEnded>>
    /\ pre' = Snapshot
    /\ markBalance' = markBalance - 1
    /\ strayReports' = IF Len(markQueue) = 0
                       THEN strayReports + 1 ELSE strayReports
    /\ UNCHANGED <<interrupted, crashed>>
    /\ UNCHANGED pairVars
    /\ UNCHANGED <<variant, streamSid, latestMediaTimestamp,
                   lastAssistantItem, responseStartTimestampTwilio, aiState,
                   aiOpened, twState, initTimer, sessionUpdates>>

\* connection.on('message'): case 'stop'
TwStop ==
    /\ TwDelivers
    /\ sent' = AiSend(aiState, StopEvents(variant))
    /\ ev' = Event("twilio", "stop", 0)
    /\ UNCHANGED <<firstChunkAt, responseEnded>>
    /\ pre' = Snapshot
    /\ UNCHANGED ghostVars
    /\ UNCHANGED pairVars
    /\ UNCHANGED <<variant, sessionVars, aiState, aiOpened, twState,
                   initTimer, sessionUpdates>>

\* connection.on('message'): JSON.parse throws on the message
TwUnparseable ==
    /\ TwDelivers
    /\ crashed' = ~ParseErrorCaught(variant)
    /\ sent' = <<>>
    /\ ev' = Event("twilio", "unparseable", 0)
    /\ UNCHANGED <<firstChunkAt, responseEnded>>
    /\ pre' = Snapshot
    /\ UNCHANGED <<interrupted, markBalance, strayReports>>
    /\ UNCHANGED pairVars
    /\ UNCHANGED <<variant, sessionVars, aiState, aiOpened, twState,
                   initTimer, sessionUpdates>>

\* connection.on('close')
TwClose ==
    /\ ~crashed
    /\ twState = "OPEN"
    /\ twState' = "CLOSED"
    /\ aiState' = AiStateAfterTwClose(variant, aiState)
    /\ sent' = CloseCalls(variant, aiState)
    /\ ev' = Event("twilio", "close", 0)
    /\ UNCHANGED <<firstChunkAt, responseEnded>>
    /\ pre' = Snapshot
    /\ UNCHANGED ghostVars
    /\ UNCHANGED pairVars
    /\ UNCHANGED <<variant, sessionVars, aiOpened, initTimer, sessionUpdates>>

Next ==
    \/ AiOpen
    \/ InitializeSession
    \/ AiAudioDelta
    \/ AiSpeechStarted
    \/ AiSpeechStopped
    \/ AiResponseDone
    \/ AiUnparseable
    \/ AiError
    \/ AiClose
    \/ TwStart
    \/ TwMedia
    \/ TwMark
    \/ TwStop
    \/ TwUnparseable
    \/ TwClose

Spec == Init /\ [][Next]_vars

\* ---- two concurrent connections ------------------------------------------------
\* the handler of event e runs for connection c
PairHandle(c, e) ==
    /\ pev.n < MaxPairEvents
    /\ HandlerEnabled(sess[StateCell(c)], e)
    /\ sess' = [sess EXCEPT ![StateCell(c)] = HandlerState(variant, @, e)]
    /\ psent' = HandlerSends(variant, sess[StateCell(c)], e)
    /\ pev' = [conn |-> c, e |-> e, n |-> pev.n + 1]
    /\ ppre' = sess
    /\ UNCHANGED oneVars

PairAiOpen ==
    \E c \in Conns : PairHandle(c, Event("openai", "open", 0))
PairInitializeSession ==
    \E c \in Conns : PairHandle(c, Event("timer", "initializeSession", 0))
PairAiAudioDelta ==
    \E c \in Conns, item \in {0} \cup ItemIds :
        PairHandle(c, Event("openai", "response.output_audio.delta", item))
PairAiSpeechStarted ==
    \E c \in Conns :
        PairHandle(c, Event("openai", "input_audio_buffer.speech_started", 0))
PairAiSpeechStopped ==
    \E c \in Conns :
        PairHandle(c, Event("openai", "input_audio_buffer.speech_stopped", 0))
PairAiResponseDone ==
    \E c \in Conns : PairHandle(c, Event("openai", "response.done", 0))
PairAiUnparseable ==
    \E c \in Conns : PairHandle(c, Event("openai", "unparseable", 0))
PairAiError ==
    \E c \in Conns : PairHandle(c, Event("openai", "error", 0))
PairAiClose ==
    \E c \in Conns : PairHandle(c, Event("openai", "close", 0))
PairTwStart ==
    \E c \in Conns, sid \in StreamSids :
        PairHandle(c, Event("twilio", "start", sid))
PairTwMedia ==
    \E c \in Conns, ts \in Timestamps :
        PairHandle(c, Event("twilio", "media", ts))
PairTwMark ==
    \E c \in Conns : PairHandle(c, Event("twilio", "mark", 0))
PairTwStop ==
    \E c \in Conns : PairHandle(c, Event("twilio", "stop", 0))
PairTwUnparseable ==
    \E c \in Conns : PairHandle(c, Event("twilio", "unparseable", 0))
PairTwClose ==
    \E c \in Conns : PairHandle(c, Event("twilio", "close", 0))

NextPair ==
    \/ PairAiOpen
    \/ PairInitializeSession
    \/ PairAiAudioDelta
    \/ PairAiSpeechStarted
    \/ PairAiSpeechStopped
    \/ PairAiResponseDone
    \/ PairAiUnparseable
    \/ PairAiError
    \/ PairAiClose
    \/ PairTwStart
    \/ PairTwMedia
    \/ PairTwMark
    \/ PairTwStop
    \/ PairTwUnparseable
    \/ PairTwClose

SpecPair == Init /\ [][NextPair]_vars

\* the actions of Spec and the handler functions describe the same handlers
ConnOf(r) ==
    [streamSid |-> r.streamSid,
     latestMediaTimestamp |-> r.latestMediaTimestamp,
     lastAssistantItem |-> r.lastAssistantItem,
     markQueue |-> r.markQueue,
     responseStartTimestampTwilio |-> r.responseStartTimestampTwilio,
     aiState |-> r.aiState,
     aiOpened |-> r.aiOpened,
     twState |-> r.twState,
     initTimer |-> r.initTimer]

HandlersAgree ==
    ev.type # "init"
        => /\ HandlerEnabled(ConnOf(pre), ev)
           /\ ConnOf(Snapshot) = HandlerState(variant, ConnOf(pre), ev)
           /\ sent = HandlerSends(variant, ConnOf(pre), ev)

TypeOK ==
    /\ variant \in Variants
    /\ streamSid \in {0} \cup StreamSids
    /\ latestMediaTimestamp \in Timestamps
    /\ lastAssistantItem \in {0} \cup ItemIds
    /\ Len(markQueue) <= MaxQueue
    /\ responseStartTimestampTwilio \in {Null} \cup Timestamps
    /\ aiState \in {"CONNECTING", "OPEN", "CLOSING", "CLOSED"}
    /\ aiOpened \in BOOLEAN
    /\ twState \in {"OPEN", "CLOSED"}
    /\ initTimer \in {"none", "pending", "fired"}
    /\ sessionUpdates \in 0..2
    /\ firstChunkAt \in {Null} \cup Timestamps
    /\ responseEnded \in BOOLEAN
    /\ interrupted \in BOOLEAN
    /\ markBalance \in (0 - MaxStray)..MaxQueue
    /\ strayReports \in 0..MaxStray
    /\ crashed \in BOOLEAN

\* ---- vocabulary of the properties ------------------------------------------
SentTo(to, type) ==
    SelectSeq(sent, LAMBDA m : m.to = to /\ m.type = type)
Truncates == SentTo("openai", "conversation.item.truncate")
Clears == SentTo("twilio", "clear")
Commits == SentTo("openai", "input_audio_buffer.commit")
ResponseCreates == SentTo("openai", "response.create")

Handled(src, type) == ev.src = src /\ ev.type = type
SpeechStartedHandled == Handled("openai", "input_audio_buffer.speech_started")
SpeechStoppedHandled == Handled("openai", "input_audio_buffer.speech_stopped")

PlaybackCleared ==
    /\ responseStartTimestampTwilio = Null
    /\ lastAssistantItem = 0
    /\ markQueue = <<>>

SessionUnchanged ==
    /\ streamSid = pre.streamSid
    /\ latestMediaTimestamp = pre.latestMediaTimestamp
    /\ lastAssistantItem = pre.lastAssistantItem
    /\ markQueue = pre.markQueue
    /\ responseStartTimestampTwilio = pre.responseStartTimestampTwilio

\* ---- C1 ----------------------------------------------------------------------
\* C1 (as claimed): whenever speech_started is handled with a start timestamp
\* recorded, a truncate goes to the AI link, a clear goes to the telephony
\* link and playback is cleared, whatever the marker queue holds.
C1_BargeInWheneverPlaybackActive ==
    (SpeechStartedHandled /\ pre.responseStartTimestampTwilio # Null)
        => /\ Len(Truncates) = 1
           /\ Len(Clears) = 1
           /\ PlaybackCleared

\* C1 (amended): with a start timestamp recorded, speech_started interrupts
\* exactly when the marker queue is non-empty: then a clear goes to the
\* telephony link, playback is cleared, and a truncate goes to the AI link
\* when an item id is recorded; with an empty marker queue nothing is sent
\* and the state is unchanged.
C1_BargeInNeedsPendingMarks ==
    (SpeechStartedHandled /\ pre.responseStartTimestampTwilio # Null)
        => IF Len(pre.markQueue) > 0
           THEN /\ Len(Clears) = 1
                /\ PlaybackCleared
                /\ (pre.lastAssistantItem # 0 => Len(Truncates) = 1)
           ELSE sent = <<>> /\ SessionUnchanged

C1_Witness ==
    /\ SpeechStartedHandled
    /\ pre.responseStartTimestampTwilio # Null
    /\ pre.markQueue = <<>>
    /\ pre.lastAssistantItem # 0
    /\ sent = <<>>

\* ---- C2 ----------------------------------------------------------------------
\* C2 (as claimed): every truncate carries the recorded item id and
\* audio_end_ms = latestMediaTimestamp - responseStartTimestampTwilio.
C2_TruncateCarriesDifference ==
    \A i \in 1..Len(Truncates) :
        /\ Truncates[i].id = pre.lastAssistantItem
        /\ Truncates[i].ms =
              pre.latestMediaTimestamp - pre.responseStartTimestampTwilio

\* C2 (amended): every truncate carries the recorded item id, and its
\* audio_end_ms equals latest timestamp minus start timestamp whenever the
\* latest timestamp is not below the start timestamp.
C2_TruncateCarriesDifferenceWhenForward ==
    \A i \in 1..Len(Truncates) :
        /\ Truncates[i].id = pre.lastAssistantItem
        /\ Truncates[i].id # 0
        /\ pre.responseStartTimestampTwilio # Null
        /\ (pre.latestMediaTimestamp >= pre.responseStartTimestampTwilio
              => Truncates[i].ms = pre.latestMediaTimestamp
                                     - pre.responseStartTimestampTwilio)

C2_Witness ==
    /\ Len(Truncates) = 1
    /\ pre.responseStartTimestampTwilio = 1
    /\ pre.latestMediaTimestamp = 2
    /\ Truncates[1].ms = 1

\* ---- C3 ----------------------------------------------------------------------
\* C3: speech_started handled with no start timestamp recorded sends nothing
\* on either link and leaves the connection state unchanged, also with a
\* non-empty marker queue.
C3_NoBargeInWithoutPlayback ==
    (SpeechStartedHandled /\ pre.responseStartTimestampTwilio = Null)
        => sent = <<>> /\ SessionUnchanged

C3_Witness ==
    /\ SpeechStartedHandled
    /\ pre.responseStartTimestampTwilio = Null
    /\ Len(pre.markQueue) > 0
    /\ Len(markQueue) > 0
    /\ sent = <<>>

\* ---- C4 ----------------------------------------------------------------------
BargeInTookEffect == SpeechStartedHandled /\ ~SessionUnchanged

\* C4 (as claimed): a barge-in that takes effect sends exactly one truncate
\* and then exactly one clear, and leaves playback cleared.
C4_BargeInSendsTruncateThenClear ==
    BargeInTookEffect
        => /\ Len(sent) = 2
           /\ sent[1].to = "openai"
           /\ sent[1].type = "conversation.item.truncate"
           /\ sent[2] = ClearEvent(streamSid)
           /\ PlaybackCleared

\* C4 (amended): a barge-in that takes effect sends exactly one clear to the
\* telephony link, preceded by exactly one truncate when an item id is
\* recorded and by nothing when none is, and leaves playback cleared.
C4_BargeInSendsClearAndTruncateIfItem ==
    BargeInTookEffect
        => /\ PlaybackCleared
           /\ sent[Len(sent)] = ClearEvent(streamSid)
           /\ Len(Clears) = 1
           /\ IF pre.lastAssistantItem # 0
              THEN /\ Len(sent) = 2
                   /\ sent[1].to = "openai"
                   /\ sent[1].type = "conversation.item.truncate"
                   /\ sent[1].id = pre.lastAssistantItem
              ELSE Len(sent) = 1

C4_Witness ==
    /\ BargeInTookEffect
    /\ pre.lastAssistantItem = 0
    /\ sent = <<ClearEvent(streamSid)>>

\* ---- C5 ----------------------------------------------------------------------
\* C5 (as claimed): after 'start' the clock is 0, no start timestamp and no
\* item id is recorded and the marker queue is empty.
C5_StartClearsEverything ==
    Handled("twilio", "start")
        => latestMediaTimestamp = 0 /\ PlaybackCleared

\* C5 (amended): after 'start' the clock is 0 and no start timestamp is
\* recorded; the recorded item id and the marker queue are left as they were.
C5_StartResetsClockAndStartOnly ==
    Handled("twilio", "start")
        => /\ latestMediaTimestamp = 0
           /\ responseStartTimestampTwilio = Null
           /\ streamSid = ev.arg
           /\ lastAssistantItem = pre.lastAssistantItem
           /\ markQueue = pre.markQueue

C5_Witness ==
    /\ Handled("twilio", "start")
    /\ pre.responseStartTimestampTwilio # Null
    /\ pre.latestMediaTimestamp > 0
    /\ Len(markQueue) > 0
    /\ lastAssistantItem # 0

\* ---- C6 ----------------------------------------------------------------------
\* C6: response.done handled with a start timestamp recorded clears playback
\* and the marker queue and sends nothing, in every variant.
C6_ResponseDoneClearsPlayback ==
    (Handled("openai", "response.done")
        /\ pre.responseStartTimestampTwilio # Null)
        => PlaybackCleared /\ sent = <<>>

\* ---- C7 ----------------------------------------------------------------------
\* C7: once the close or error handler of the AI link has run, the telephony
\* link is no longer open.
C7_AiCloseClosesTelephony ==
    (Handled("openai", "close") \/ Handled("openai", "error"))
        => twState # "OPEN"

\* ---- C8 ----------------------------------------------------------------------
\* C8: once the telephony link has closed, the AI link is never open and
\* configured.
C8_TelephonyCloseClosesAi ==
    twState = "CLOSED" => ~(aiState = "OPEN" /\ sessionUpdates > 0)

\* ---- C9 ----------------------------------------------------------------------
\* C9: with server_vad configured by the session update, no handler sends
\* input_audio_buffer.commit or response.create to the AI link.
C9_NoCommitNoCreateUnderServerVad ==
    sessionUpdates > 0 => Commits = <<>> /\ ResponseCreates = <<>>

\* ---- C10 ---------------------------------------------------------------------
\* C10: in part_001 each speech_stopped makes the handler send exactly one
\* input_audio_buffer.commit and then exactly one response.create, and
\* nothing else.
C10_SpeechStoppedCommitThenCreate ==
    (variant = "part_001" /\ SpeechStoppedHandled)
        => sent = <<Msg("openai", "input_audio_buffer.commit", 0, 0),
                    Msg("openai", "response.create", 0, 0)>>

C10_Witness ==
    /\ variant = "part_001"
    /\ SpeechStoppedHandled
    /\ Len(Commits) = 1
    /\ Len(ResponseCreates) = 1
    /\ sessionUpdates = 1

\* ---- C11 ---------------------------------------------------------------------
\* C11: after a media frame is handled the call clock equals the timestamp
\* of that frame, whatever the clock was before and whether or not the frame
\* was forwarded to the AI link.
C11_ClockIsLastFrameTimestamp ==
    Handled("twilio", "media") => latestMediaTimestamp = ev.arg

C11_Witness ==
    /\ Handled("twilio", "media")
    /\ ev.arg < pre.latestMediaTimestamp
    /\ latestMediaTimestamp = ev.arg
    /\ pre.aiState # "OPEN"
    /\ sent = <<>>

\* ---- C12 ---------------------------------------------------------------------
\* C12: a mark report removes exactly the oldest queued marker when the
\* queue is non-empty and changes nothing when it is empty; the queue length
\* never goes below 0.
C12_MarkRemovesOneOrNothing ==
    Handled("twilio", "mark")
        => /\ Len(markQueue) = Max(0, Len(pre.markQueue) - 1)
           /\ \A i \in 1..Len(markQueue) : markQueue[i] = pre.markQueue[i + 1]
           /\ (pre.markQueue = <<>> => SessionUnchanged /\ sent = <<>>)

C12_Witness ==
    /\ Handled("twilio", "mark")
    /\ pre.markQueue = <<>>
    /\ pre.streamSid # 0
    /\ pre.responseStartTimestampTwilio # Null
    /\ markQueue = <<>>

\* ---- C13 ---------------------------------------------------------------------
\* C13 (as claimed): once set, the stream id never changes.
C13_StreamSidImmutable ==
    pre.streamSid # 0 => streamSid = pre.streamSid

\* C13 (amended): the stream id is unset until the first 'start' and is
\* changed by 'start' events only; every 'start' sets it to the id it
\* carries, and outbound media, mark and clear messages carry the id of the
\* latest 'start'.
C13_StreamSidIsLatestStart ==
    /\ (streamSid # pre.streamSid => Handled("twilio", "start"))
    /\ (Handled("twilio", "start") => streamSid = ev.arg)
    /\ \A i \in 1..Len(sent) :
          sent[i].to = "twilio" => sent[i].id = streamSid

C13_Witness ==
    /\ Handled("twilio", "start")
    /\ pre.streamSid # 0
    /\ streamSid # pre.streamSid
    /\ streamSid = ev.arg

\* ---- C15 ---------------------------------------------------------------------
\* C15: an audio chunk handled while a start timestamp is recorded leaves
\* that timestamp as it was, for every recorded value including 0.
C15_StartKeptWhilePlaybackActive ==
    (Handled("openai", "response.output_audio.delta")
        /\ pre.responseStartTimestampTwilio # Null)
        => responseStartTimestampTwilio = pre.responseStartTimestampTwilio

\* ---- C16 ---------------------------------------------------------------------
\* C16: the start timestamp a truncate is computed from is the call clock at
\* the first chunk of the latest response (stated for first chunks forwarded
\* at a non-zero clock; a start recorded at clock 0 is the case of C15).
C16_TruncateFromFirstChunkOfResponse ==
    (Len(Truncates) > 0 /\ pre.firstChunkAt > 0)
        => pre.responseStartTimestampTwilio = pre.firstChunkAt

\* ---- C17 ---------------------------------------------------------------------
\* C17: no truncate carries a negative audio_end_ms.
C17_ElapsedNeverNegative ==
    \A i \in 1..Len(Truncates) : Truncates[i].ms >= 0

\* ---- C18 ---------------------------------------------------------------------
\* C18 (as claimed): chunks handled while a start timestamp is recorded do
\* not change the recorded item id.
C18_ItemIdFixedWhilePlaybackActive ==
    (Handled("openai", "response.output_audio.delta")
        /\ pre.responseStartTimestampTwilio # Null)
        => lastAssistantItem = pre.lastAssistantItem

\* C18 (amended): every chunk that carries an item id makes it the recorded
\* item id, a chunk without one leaves the recorded id as it was, and a
\* truncate carries the id recorded by the latest such chunk.
C18_ItemIdIsLatestChunk ==
    /\ Handled("openai", "response.output_audio.delta")
          => lastAssistantItem =
                IF ev.arg # 0 THEN ev.arg ELSE pre.lastAssistantItem
    /\ Len(Truncates) > 0
          => /\ Truncates[1].id = pre.lastAssistantItem
             /\ lastAssistantItem = 0

C18_Witness ==
    /\ Handled("openai", "response.output_audio.delta")
    /\ pre.responseStartTimestampTwilio # Null
    /\ pre.lastAssistantItem # 0
    /\ ev.arg # 0
    /\ ev.arg # pre.lastAssistantItem
    /\ lastAssistantItem = ev.arg

\* ---- C19 ---------------------------------------------------------------------
Appends == SentTo("openai", "input_audio_buffer.append")
Updates == SentTo("openai", "session.update")

\* C19: no input_audio_buffer.append is sent to the AI link before the
\* session.update has been sent on it.
C19_ConfigureBeforeAppend ==
    Len(Appends) > 0 => sessionUpdates > 0

\* ---- C20 ---------------------------------------------------------------------
\* C20: session.update is sent at most once per connection, only after the
\* AI link has opened and only while it is open.
C20_ConfigureOnceWhileOpen ==
    /\ sessionUpdates <= 1
    /\ Len(Updates) > 0 => aiOpened /\ aiState = "OPEN"

\* ---- C14 ---------------------------------------------------------------------
OtherConn(c) == CHOOSE d \in Conns : d # c

\* C14: with two concurrent connections, the handler of an event delivered
\* on one connection leaves the other connection's clock, start timestamp,
\* item id, marker queue, stream id and sockets as they were, and works on
\* its own connection's state only.
C14_SessionsIsolated ==
    pev.e.type # "init"
        => /\ sess[OtherConn(pev.conn)] = ppre[OtherConn(pev.conn)]
           /\ sess[pev.conn] = HandlerState(variant, ppre[pev.conn], pev.e)
           /\ psent = HandlerSends(variant, ppre[pev.conn], pev.e)

C14_Witness ==
    /\ pev.conn = "A"
    /\ pev.e.type = "start"
    /\ sess["A"].streamSid # 0
    /\ sess["B"].streamSid # 0
    /\ sess["B"].streamSid # sess["A"].streamSid
    /\ sess["B"].latestMediaTimestamp > 0
    /\ sess["B"].responseStartTimestampTwilio > 0
    /\ sess["B"].lastAssistantItem # 0
    /\ Len(sess["B"].markQueue) > 0
    /\ sess["B"] = ppre["B"]

\* ---- C21 ---------------------------------------------------------------------
Medias == SentTo("twilio", "media")
Marks == SentTo("twilio", "mark")
DeltaHandled == Handled("openai", "response.output_audio.delta")

\* C21 (as claimed): every audio chunk handled sends exactly one media frame
\* tagged with a non-null stream id and exactly one mark, and grows the
\* marker queue by one, in any state.
C21_ChunkSendsMediaAndMark ==
    DeltaHandled
        => /\ Len(Medias) = 1
           /\ Medias[1].id # 0
           /\ Len(Marks) = 1
           /\ Len(markQueue) = Len(pre.markQueue) + 1

\* C21 (amended): every audio chunk handled sends exactly one media frame
\* tagged with the current stream id (null before the first 'start'); once
\* a stream id is set it also sends exactly one mark and grows the marker
\* queue by one, and before that it sends no mark and leaves the queue as
\* it was.
C21_ChunkSendsMediaAndMarkIfStarted ==
    DeltaHandled
        => /\ Len(Medias) = 1
           /\ Medias[1].id = pre.streamSid
           /\ sent[1] = Medias[1]
           /\ IF pre.streamSid # 0
              THEN /\ sent = <<Medias[1], Msg("twilio", "mark", pre.streamSid, 0)>>
                   /\ markQueue = Append(pre.markQueue, "responsePart")
              ELSE /\ sent = <<Medias[1]>>
                   /\ markQueue = pre.markQueue

C21_Witness ==
    /\ DeltaHandled
    /\ pre.streamSid = 0
    /\ sent = <<Msg("twilio", "media", 0, 0)>>
    /\ markQueue = <<>>
    /\ responseStartTimestampTwilio # Null

\* ---- C22 ---------------------------------------------------------------------
\* an interruption has just been carried out by the speech_started handler
BargeInFired ==
    /\ SpeechStartedHandled
    /\ SpeechStartedFires(pre.markQueue, pre.responseStartTimestampTwilio)

\* C22: the handler that carries out an interruption sends its truncate (when
\* an item id is recorded) and then its clear in the same step, with no media
\* frame among them, and leaves playback cleared; whatever telephony and AI
\* events are handled next, playback stays cleared until an audio chunk is
\* handled, and that chunk sends its media frame and records the clock of
\* that moment as a fresh start timestamp.
C22_BargeInCompletesBeforeNextChunk ==
    /\ BargeInFired
          => /\ sent = TruncateEvents(pre.lastAssistantItem,
                          AudioEndMs(variant, pre.latestMediaTimestamp,
                                     pre.responseStartTimestampTwilio))
                       \o <<ClearEvent(pre.streamSid)>>
             /\ Len(Medias) = 0
             /\ interrupted
    /\ interrupted => PlaybackCleared
    /\ (DeltaHandled /\ pre.interrupted)
          => /\ responseStartTimestampTwilio = pre.latestMediaTimestamp
             /\ sent[1] = Msg("twilio", "media", pre.streamSid, 0)
             /\ Len(Clears) = 0
             /\ Len(Truncates) = 0
             /\ ~interrupted

\* the first chunk after an interruption, handled at a later clock value than
\* the interrupted response could have started at
C22_Witness ==
    /\ DeltaHandled
    /\ pre.interrupted
    /\ pre.latestMediaTimestamp = MaxTs
    /\ responseStartTimestampTwilio = MaxTs
    /\ Len(markQueue) = 1

\* ---- C23 ---------------------------------------------------------------------
CloseCallsMade == SentTo("openai", "close")
TwCloseHandled == Handled("twilio", "close")
AiCloseHandled == Handled("openai", "close")

UnparseableHandled == ev.type = "unparseable"

\* C24: a message on which JSON.parse throws, from either link, is dropped:
\* no exception escapes the handler, nothing is sent on either link, the
\* stream id, call clock, start timestamp, item id, marker queue, the two
\* sockets and the timer are as before, so every later event is handled
\* from the state it would have been handled from without that message.
C24_UnparseableDropped ==
    UnparseableHandled
        => /\ ~crashed
           /\ sent = <<>>
           /\ SessionUnchanged
           /\ ConnOf(Snapshot) = ConnOf(pre)
           /\ firstChunkAt = pre.firstChunkAt
           /\ responseEnded = pre.responseEnded
           /\ interrupted = pre.interrupted

\* an unparseable telephony message in the middle of playback, part_000
C24_Witness ==
    /\ Handled("twilio", "unparseable")
    /\ variant = "part_000"
    /\ Len(markQueue) > 0
    /\ responseStartTimestampTwilio # Null
    /\ pre.aiState = "OPEN"
    /\ ~crashed

\* ---- C25 ---------------------------------------------------------------------
MediaHandled == Handled("twilio", "media")
MarkHandled == Handled("twilio", "mark")
SentToTwilio == SelectSeq(sent, LAMBDA m : m.to = "twilio")

\* C25: handling a telephony media frame leaves the start timestamp, the item
\* id, the marker queue and the stream id as they were and sends nothing to
\* the telephony link; handling a telephony mark leaves the call clock, the
\* start timestamp, the item id and the stream id as they were and sends
\* nothing on either link; neither changes the state of a socket.
C25_TelephonyEventFrames ==
    /\ MediaHandled
          => /\ responseStartTimestampTwilio = pre.responseStartTimestampTwilio
             /\ lastAssistantItem = pre.lastAssistantItem
             /\ markQueue = pre.markQueue
             /\ streamSid = pre.streamSid
             /\ Len(SentToTwilio) = 0
             /\ aiState = pre.aiState /\ twState = pre.twState
    /\ MarkHandled
          => /\ latestMediaTimestamp = pre.latestMediaTimestamp
             /\ responseStartTimestampTwilio = pre.responseStartTimestampTwilio
             /\ lastAssistantItem = pre.lastAssistantItem
             /\ streamSid = pre.streamSid
             /\ sent = <<>>
             /\ aiState = pre.aiState /\ twState = pre.twState

\* a media frame that moves the clock during playback, with marks pending
C25_Witness ==
    /\ MediaHandled
    /\ latestMediaTimestamp # pre.latestMediaTimestamp
    /\ Len(markQueue) = MaxQueue
    /\ responseStartTimestampTwilio # Null
    /\ lastAssistantItem # 0
    /\ Len(sent) = 1

\* ---- C26 ---------------------------------------------------------------------
\* C26: a telephony media frame sends one input_audio_buffer.append when the
\* AI socket is OPEN and nothing when it is CONNECTING, CLOSING or CLOSED, and
\* sets the call clock either way; no other handler sends an append, so a
\* frame that was not forwarded is never sent later.
C26_AudioForwardedOnlyWhileOpen ==
    /\ MediaHandled
          => /\ latestMediaTimestamp = ev.arg
             /\ IF pre.aiState = "OPEN"
                THEN sent = <<Msg("openai", "input_audio_buffer.append", 0, 0)>>
                ELSE sent = <<>>
    /\ Len(Appends) > 0
          => /\ MediaHandled
             /\ pre.aiState = "OPEN"
             /\ Len(Appends) = 1

\* a frame handled while the AI socket is closing moves the clock, unsent
C26_Witness ==
    /\ MediaHandled
    /\ pre.aiState = "CLOSING"
    /\ pre.aiOpened
    /\ sent = <<>>
    /\ pre.latestMediaTimestamp = 0
    /\ latestMediaTimestamp = MaxTs

\* ---- C27 ---------------------------------------------------------------------
\* C27 (as claimed): a handler that runs after the telephony socket has closed
\* sends nothing to it and leaves the start timestamp, the item id and the
\* marker queue as they were.
C27_NothingSentAfterTelephonyClose ==
    pre.twState = "CLOSED"
        => /\ Len(SentToTwilio) = 0
           /\ markQueue = pre.markQueue
           /\ lastAssistantItem = pre.lastAssistantItem
           /\ responseStartTimestampTwilio = pre.responseStartTimestampTwilio

\* ---- C28 ---------------------------------------------------------------------
\* the marker queue grows only by one and only in a step that sends one mark
QueueGrowsWithMark ==
    Len(markQueue) > Len(pre.markQueue)
        => /\ Len(markQueue) = Len(pre.markQueue) + 1
           /\ Marks = <<Msg("twilio", "mark", pre.streamSid, 0)>>

\* C28 (as claimed): the marker queue grows only in a step that sends a mark,
\* a non-empty queue implies a stream id, and the queue length is the marks
\* sent minus the 'mark' events handled since the queue was last emptied,
\* floored at 0.
C28_QueueLengthIsFlooredBalance ==
    /\ QueueGrowsWithMark
    /\ Len(markQueue) > 0 => streamSid # 0
    /\ Len(markQueue) = Max(0, markBalance)

\* C28 (amended): the marker queue grows only in a step that sends a mark,
\* a non-empty queue implies a stream id, and the queue length is the marks
\* sent since the queue was last emptied minus the 'mark' events handled
\* since then that found the queue non-empty; a 'mark' event that finds the
\* queue empty is not made up for by the next mark sent.
C28_QueueLengthIsEffectiveBalance ==
    /\ QueueGrowsWithMark
    /\ Len(markQueue) > 0 => streamSid # 0
    /\ Len(markQueue) = markBalance + strayReports
    /\ Len(markQueue) >= Max(0, markBalance)

\* a mark sent after a 'mark' event found the queue empty
C28_Witness ==
    /\ DeltaHandled
    /\ strayReports > 0
    /\ markBalance = 0
    /\ Len(markQueue) = 1
    /\ Len(Marks) = 1
====
